---- MODULE Spec2Model ----
(***************************************************************************)
(* A state-machine model of GameClient (src/game.js): the connection       *)
(* lifecycle, the inbound message handlers, the camera and the keyboard    *)
(* command loop.  Every callback of the class is one atomic action (the    *)
(* browser runs callbacks one at a time, to completion).                   *)
(***************************************************************************)
EXTENDS Integers, Sequences, FiniteSets, TLC

VARIABLES
    canvas,              \* [width, height] of this.canvas
    worldImage,          \* this.worldImage: "null" or "Image"
    myPlayerId,          \* this.myPlayerId: NULL or a player id
    players,             \* this.players: id -> player entry
    avatars,             \* this.avatars: name -> avatar definition
    loadedAvatarImages,  \* this.loadedAvatarImages: name -> direction -> frames
    imagesComplete,      \* the avatar frame images that have finished loading
    frame,               \* what the canvas shows: the last drawWorld() painted it
    cameraX, cameraY,    \* this.cameraX, this.cameraY
    isDragging,          \* this.isDragging
    lastMouseX, lastMouseY,
    pressedKeys,         \* this.pressedKeys: the held key codes, in insertion order
    isMoving,            \* this.isMoving
    movementInterval,    \* this.movementInterval: "null" or "timer"
    intervals,           \* number of live setInterval timers of the page
    sockets,             \* the WebSocket objects: every one not yet closed, and
                         \* last the one this.websocket refers to
    reconnectTimers,     \* number of pending setTimeout(reconnect) callbacks
    trace                \* history: the callback that ran last and the calls it made

vars == <<canvas, worldImage, myPlayerId, players, avatars, loadedAvatarImages,
          imagesComplete, frame, cameraX, cameraY, isDragging, lastMouseX, lastMouseY,
          pressedKeys, isMoving, movementInterval, intervals,
          sockets, reconnectTimers, trace>>

worldVars == <<myPlayerId, players, avatars, loadedAvatarImages>>
cameraVars == <<cameraX, cameraY>>
mouseVars == <<isDragging, lastMouseX, lastMouseY>>
keyVars == <<pressedKeys, isMoving, movementInterval, intervals>>
connVars == <<sockets, reconnectTimers>>
imageVars == <<worldImage, imagesComplete>>

NULL == "null"

(***************************************************************************)
(* Program constants.                                                      *)
(***************************************************************************)
worldWidth == 2048
worldHeight == 2048

(***************************************************************************)
(* Bounds of the model.                                                    *)
(***************************************************************************)
MaxSent == 4       \* messages recorded per WebSocket
MaxSockets == 2    \* WebSocket objects alive at once
MaxTimers == 2     \* pending reconnect timers, and live interval timers

Max(a, b) == IF a >= b THEN a ELSE b
Min(a, b) == IF a <= b THEN a ELSE b
Last(s) == s[Len(s)]

(***************************************************************************)
(* Inputs of the environment.                                              *)
(***************************************************************************)
\* window.innerWidth x window.innerHeight; widths and heights are even, so
\* that canvas.width / 2 is an integer.  One window is larger than the world.
\* Every player object carries numeric x and y (see FullPlayer, PositionOnly).
CanvasSizes == { [width |-> 800, height |-> 600],
                 [width |-> 2400, height |-> 2200] }
\* event.clientX, event.clientY of the mouse events
MousePoints == { <<0, 0>>, <<700, 500>> }
\* event.code of the keyboard events: three movement keys (two of them for
\* the same direction), the recenter key, and a key that is not mapped
KeyCodes == { "ArrowUp", "KeyW", "ArrowRight", "KeyC", "KeyX" }

Ids == { "p1", "p2" }
Positions == { <<0, 0>>, <<1000, 1000>>, <<2000, 2000>> }
Username(id) == IF id = "p1" THEN "Robert" ELSE "Ann"

\* A player object as the server sends it in full.
FullPlayer(id, pos) ==
    [id |-> id, username |-> Username(id), x |-> pos[1], y |-> pos[2],
     avatar |-> "a1", facing |-> "south", animationFrame |-> 0]
\* A player object that carries a position only.
PositionOnly(pos) == [x |-> pos[1], y |-> pos[2]]

FullPlayers == { FullPlayer(id, pos) : id \in Ids, pos \in Positions }

\* mappings id -> full player, every entry stored under its own id
PlayerMaps ==
    UNION { { f \in [S -> FullPlayers] : \A id \in S : f[id].id = id } : S \in SUBSET Ids }

\* the mappings a players_moved message may carry: a non-empty subset of the
\* ids, each with the full player object or with its position only
MovedEntries(id) ==
    { FullPlayer(id, pos) : pos \in Positions } \cup { PositionOnly(<<0, 0>>) }
MovedMaps ==
    UNION { { f \in [S -> UNION { MovedEntries(id) : id \in Ids }] :
                \A id \in S : f[id] \in MovedEntries(id) } : S \in (SUBSET Ids) \ {{}} }

AvatarDef(name) ==
    [name |-> name,
     frames |-> [north |-> <<"n0">>, south |-> <<"s0">>, east |-> <<"e0">>]]
AvatarNames == { "a1" }
AvatarMaps == { [n \in S |-> AvatarDef(n)] : S \in SUBSET AvatarNames }

EmptyMap == [n \in {} |-> NULL]

(***************************************************************************)
(* Outbound messages.                                                      *)
(***************************************************************************)
JoinMessage == [action |-> "join_game", username |-> "Robert"]
MoveMessage(direction) == [action |-> "move", direction |-> direction]
StopMessage == [action |-> "stop"]

(***************************************************************************)
(* Inbound messages, as JSON.parse returns them, and the payloads that     *)
(* carry them.  A payload is the parsed message itself, or text that       *)
(* JSON.parse rejects.                                                     *)
(***************************************************************************)
JoinSuccess ==
    { [action |-> "join_game", success |-> TRUE, playerId |-> id,
       players |-> ps, avatars |-> av] :
         id \in Ids, ps \in PlayerMaps, av \in AvatarMaps }
JoinFailure == { [action |-> "join_game", success |-> FALSE, error |-> "full"] }
PlayerJoined ==
    { [action |-> "player_joined", player |-> p, avatar |-> AvatarDef(n)] :
         p \in FullPlayers, n \in AvatarNames }
PlayersMoved == { [action |-> "players_moved", players |-> m] : m \in MovedMaps }
PlayerLeft == { [action |-> "player_left", playerId |-> id] : id \in Ids }
UnknownAction == { [action |-> "ping"] }

Messages ==
    JoinSuccess \cup JoinFailure \cup PlayerJoined \cup PlayersMoved
        \cup PlayerLeft \cup UnknownAction

\* event.data of a message event: JSON text of a message, or text that is not JSON
Payload(m) == [json |-> TRUE, value |-> m]
Unparseable == { [json |-> FALSE] }
Payloads == { Payload(m) : m \in Messages } \cup Unparseable

\* whether JSON.parse(data) returns (TRUE) or throws a SyntaxError (FALSE)
Parses(data) == data.json
\* JSON.parse(data), where it returns
JSONparse(data) == data.value

(***************************************************************************)
(* The camera.                                                             *)
(***************************************************************************)
\* a clamp that has lost its lower bound: Math.min(c, world - viewport)
clampBroken(c, world, viewport) == Min(c, world - viewport)
\* Math.max(0, Math.min(c, world - viewport))
clamp(c, world, viewport) == Max(0, Min(c, world - viewport))

\* drawWorld(): the camera after the draw, <<cameraX, cameraY>>
drawWorld(cx, cy, cv, img) ==
    IF img = NULL
    THEN <<cx, cy>>
    ELSE <<clamp(cx, worldWidth, cv.width), clamp(cy, worldHeight, cv.height)>>

\* a variant that puts the player at the viewport's top-left corner
centerCameraTopLeft(cx, cy, pid, pls, cv) ==
    IF pid # NULL /\ pid \in DOMAIN pls
    THEN <<pls[pid].x, pls[pid].y>>
    ELSE <<cx, cy>>
\* centerCameraOnMyAvatar(): the camera after the call
centerCameraOnMyAvatar(cx, cy, pid, pls, cv) ==
    IF pid # NULL /\ pid \in DOMAIN pls
    THEN <<pls[pid].x - cv.width \div 2, pls[pid].y - cv.height \div 2>>
    ELSE <<cx, cy>>

\* centerCameraOnMyAvatar(); drawWorld()
centerAndDraw(cx, cy, pid, pls, cv, img) ==
    LET c == centerCameraOnMyAvatar(cx, cy, pid, pls, cv)
    IN  drawWorld(c[1], c[2], cv, img)

(***************************************************************************)
(* The render pass.                                                        *)
(***************************************************************************)
avatarSize == 32

\* renderAvatar(player, screenX, screenY): what it paints, as a set of at
\* most one sprite: nothing without the avatar, its loaded images or the
\* frame; else the username above the frame image.  drawImage paints
\* nothing for an image that has not finished loading.
renderAvatar(player, screenX, screenY, avs, loaded, complete) ==
    IF "avatar" \notin DOMAIN player
           \/ player.avatar \notin DOMAIN avs
           \/ player.avatar \notin DOMAIN loaded
    THEN {}
    ELSE LET facing == player.facing
             frameIndex == player.animationFrame
             shouldFlip == facing \in {"left", "west"}
             dir == IF shouldFlip THEN "east" ELSE facing
             images == loaded[player.avatar]
         IN  IF dir \notin DOMAIN images \/ frameIndex + 1 \notin DOMAIN images[dir]
             THEN {}
             ELSE LET avatarImg == images[dir][frameIndex + 1]
                  IN  { [x |-> screenX - avatarSize \div 2,
                         y |-> screenY - avatarSize \div 2,
                         image |-> IF avatarImg \in complete THEN avatarImg ELSE "none",
                         flipped |-> shouldFlip,
                         username |-> player.username] }

\* renderAvatars(): the sprites painted for the stored players, each at
\* worldToScreen of its position
renderAvatars(cx, cy, pls, avs, loaded, complete) ==
    UNION { renderAvatar(pls[id], pls[id].x - cx, pls[id].y - cy, avs, loaded, complete) :
            id \in DOMAIN pls }

\* what a drawWorld() that runs to its end paints: the world at the camera
\* offset and the avatars on top of it
Painted(cx, cy, pls, avs, loaded, complete) ==
    [cameraX |-> cx, cameraY |-> cy,
     sprites |-> renderAvatars(cx, cy, pls, avs, loaded, complete)]

\* a drawWorld() that returns before it paints
drawnNothing(old, painted, img) == old
\* drawWorld(): the canvas after the call, old being the canvas before it
drawn(old, painted, img) == IF img = NULL THEN old ELSE painted

(***************************************************************************)
(* The world state store.                                                  *)
(***************************************************************************)
\* Object.assign(target, source) on two objects
ObjectAssign(target, source) ==
    [k \in DOMAIN target \cup DOMAIN source |->
        IF k \in DOMAIN source THEN source[k] ELSE target[k]]

\* a variant that merges each update entry into the stored player field by field
playersMovedFieldMerge(pls, message) ==
    [k \in DOMAIN pls \cup DOMAIN message.players |->
        IF k \notin DOMAIN message.players THEN pls[k]
        ELSE IF k \notin DOMAIN pls THEN message.players[k]
        ELSE ObjectAssign(pls[k], message.players[k])]
\* a variant that replaces the stored mapping by the update
playersMovedReplaceAll(pls, message) == message.players
\* case 'players_moved': this.players after Object.assign(this.players, message.players)
playersMoved(pls, message) == ObjectAssign(pls, message.players)

\* case 'player_joined': this.players[message.player.id] = message.player
playerJoined(pls, message) ==
    [k \in DOMAIN pls \cup {message.player.id} |->
        IF k = message.player.id THEN message.player ELSE pls[k]]
\* this.avatars[message.avatar.name] = message.avatar
avatarJoined(avs, message) ==
    [k \in DOMAIN avs \cup {message.avatar.name} |->
        IF k = message.avatar.name THEN message.avatar ELSE avs[k]]

\* case 'player_left': delete this.players[message.playerId]
playerLeft(pls, message) ==
    [k \in DOMAIN pls \ {message.playerId} |-> pls[k]]

\* loadAvatarImages(): this.loadedAvatarImages after the call; an avatar
\* already present (by avatar.name) is not loaded again
loadAvatarImages(loaded, avs) ==
    LET names == { avs[k].name : k \in DOMAIN avs }
        def(n) == CHOOSE a \in { avs[k] : k \in DOMAIN avs } : a.name = n
    IN  [n \in DOMAIN loaded \cup names |->
            IF n \in DOMAIN loaded THEN loaded[n] ELSE def(n).frames]

(***************************************************************************)
(* The connection.                                                         *)
(***************************************************************************)
\* A WebSocket object: its readyState, the messages transmitted on it, and
\* the number of join results the server has delivered on it.
NewSocket == [readyState |-> "CONNECTING", sent |-> <<>>, acks |-> 0]

\* the join requests among the messages transmitted on a socket
Joins(sent) == SelectSeq(sent, LAMBDA m : m.action = "join_game")
\* the move and stop commands among the messages transmitted on a socket
Commands(sent) == SelectSeq(sent, LAMBDA m : m.action \in {"move", "stop"})

\* whether this.websocket is a socket whose readyState is WebSocket.OPEN
IsOpen(socks) == socks # <<>> /\ Last(socks).readyState = "OPEN"

\* this.websocket.send(JSON.stringify(message)): transmitted when the socket
\* is open; otherwise the call throws (CONNECTING) or the data is discarded
wsSend(socks, message) ==
    IF IsOpen(socks)
    THEN [socks EXCEPT ![Len(socks)].sent = Append(@, message)]
    ELSE socks

\* a variant that sends the join request twice
joinGameTwice(socks) == wsSend(wsSend(socks, JoinMessage), JoinMessage)
\* joinGame()
joinGame(socks) == wsSend(socks, JoinMessage)

\* a variant without the readyState guard, on a socket that keeps what it is
\* handed while not open and transmits it once it is
sendMoveCommandQueued(socks, direction) ==
    IF socks = <<>> THEN socks
    ELSE [socks EXCEPT ![Len(socks)].sent = Append(@, MoveMessage(direction))]
\* sendMoveCommand(direction)
sendMoveCommand(socks, direction) ==
    IF socks = <<>> \/ Last(socks).readyState # "OPEN"
    THEN socks
    ELSE wsSend(socks, MoveMessage(direction))

\* sendStopCommand()
sendStopCommand(socks) ==
    IF socks = <<>> \/ Last(socks).readyState # "OPEN"
    THEN socks
    ELSE wsSend(socks, StopMessage)

\* connectToServer(): new WebSocket(url), this.websocket = it.  The socket
\* this.websocket referred to is kept while it is not closed (its callbacks
\* can still run).  The constructor does not throw for the fixed wss:// URL,
\* so the catch block is never entered.
connectToServer(socks) ==
    IF socks # <<>> /\ Last(socks).readyState = "CLOSED"
    THEN Append(SubSeq(socks, 1, Len(socks) - 1), NewSocket)
    ELSE Append(socks, NewSocket)

\* a variant of onclose that schedules nothing
oncloseNoRetry(timers) == timers
\* websocket.onclose: the pending reconnect timers after setTimeout(..., 3000)
onclose(timers) == timers + 1

\* a variant of onerror that schedules a reconnect of its own
onerrorReconnects(timers) == timers + 1
\* websocket.onerror: the pending reconnect timers (the handler only logs)
onerror(timers) == timers

\* a variant of the catch block that closes the session
onParseErrorClose(socks) ==
    [socks EXCEPT ![Len(socks)].readyState = "CLOSING"]
\* the catch block of websocket.onmessage: the sockets after it (it only logs)
onParseError(socks) == socks

\* a variant of the failure branch that sends the join request again
joinFailedRetry(socks) == joinGame(socks)
\* case 'join_game' with success false: the sockets after it (it only logs)
joinFailed(socks) == socks

(***************************************************************************)
(* The keyboard command loop.                                              *)
(***************************************************************************)
MovementCodes == { "ArrowUp", "ArrowRight", "KeyW" }
\* keyMap[event.code], for the codes that have a direction
keyMap(code) ==
    CASE code = "ArrowUp" -> "up"
      [] code = "KeyW" -> "up"
      [] code = "ArrowRight" -> "right"

\* a variant that takes no key for pressed
PressedNever(keys, code) == FALSE
\* whether this.pressedKeys[code] is set
Pressed(keys, code) == \E i \in DOMAIN keys : keys[i] = code
\* a variant that forgets every held key
ReleasedAll(keys, code) == <<>>
\* delete this.pressedKeys[code]
Released(keys, code) == SelectSeq(keys, LAMBDA k : k # code)

\* a variant that starts a timer on every call
startSecondTimer(interval, ivs) == <<"timer", ivs + 1>>
\* startContinuousMovement(): this.movementInterval and the number of live
\* interval timers after the call
startContinuousMovement(interval, ivs) ==
    IF interval # NULL THEN <<interval, ivs>> ELSE <<"timer", ivs + 1>>

\* a variant that takes the key pressed last
lastPressed(keys) == keys[Len(keys)]
\* Object.keys(this.pressedKeys)[0]: the held key that was inserted first
firstPressed(keys) == keys[1]

\* the model's bounds: an action that would exceed one is not taken
Bounded(socks, timers, ivs) ==
    /\ Len(socks) <= MaxSockets
    /\ \A i \in DOMAIN socks : Len(socks[i].sent) <= MaxSent
    /\ timers <= MaxTimers
    /\ ivs <= MaxTimers

(***************************************************************************)
(* Init: the state after the constructor, init() included: the canvas has  *)
(* the window's size, the world image is being loaded, and the first       *)
(* connection attempt has started.                                         *)
(***************************************************************************)
Init ==
    /\ canvas \in CanvasSizes
    /\ worldImage = "Image"
    /\ myPlayerId = NULL
    /\ players = EmptyMap
    /\ avatars = EmptyMap
    /\ loadedAvatarImages = EmptyMap
    /\ imagesComplete = {}
    /\ frame = Painted(0, 0, EmptyMap, EmptyMap, EmptyMap, {})
    /\ cameraX = 0
    /\ cameraY = 0
    /\ isDragging = FALSE
    /\ lastMouseX = 0
    /\ lastMouseY = 0
    /\ pressedKeys = <<>>
    /\ isMoving = FALSE
    /\ movementInterval = NULL
    /\ intervals = 0
    /\ sockets = connectToServer(<<>>)
    /\ reconnectTimers = 0
    /\ trace = <<"init">>

(***************************************************************************)
(* Window and mouse callbacks.                                             *)
(***************************************************************************)
\* this.drawWorld() as the last call of a callback: the canvas shows the
\* store and the camera as the callback leaves them
Draws ==
    frame' = drawn(frame,
                   Painted(cameraX', cameraY', players', avatars', loadedAvatarImages',
                           imagesComplete),
                   worldImage)

\* window 'resize'
Resize(size) ==
    LET c == drawWorld(cameraX, cameraY, size, worldImage)
    IN  /\ canvas' = size
        /\ cameraX' = c[1]
        /\ cameraY' = c[2]
        /\ trace' = <<"resize", "draw">>
        /\ UNCHANGED <<imageVars, worldVars, mouseVars, keyVars, connVars>>
        /\ Draws

\* canvas 'mousedown'
MouseDown(pt) ==
    /\ isDragging' = TRUE
    /\ lastMouseX' = pt[1]
    /\ lastMouseY' = pt[2]
    /\ trace' = <<"mousedown">>
    /\ UNCHANGED frame
    /\ UNCHANGED <<canvas, imageVars, worldVars, cameraVars, keyVars, connVars>>

\* canvas 'mousemove'
MouseMove(pt) ==
    IF isDragging
    THEN LET deltaX == pt[1] - lastMouseX
             deltaY == pt[2] - lastMouseY
             c == drawWorld(cameraX - deltaX, cameraY - deltaY, canvas, worldImage)
         IN  /\ cameraX' = c[1]
             /\ cameraY' = c[2]
             /\ lastMouseX' = pt[1]
             /\ lastMouseY' = pt[2]
             /\ trace' = <<"mousemove", "draw">>
             /\ UNCHANGED <<canvas, imageVars, worldVars, isDragging, keyVars, connVars>>
             /\ Draws
    ELSE /\ trace' = <<"mousemove">>
         /\ UNCHANGED frame
         /\ UNCHANGED <<canvas, imageVars, worldVars, cameraVars, mouseVars,
                        keyVars, connVars>>

\* canvas 'mouseup' and 'mouseleave'
MouseUp ==
    /\ isDragging' = FALSE
    /\ trace' = <<"mouseup">>
    /\ UNCHANGED frame
    /\ UNCHANGED <<canvas, imageVars, worldVars, cameraVars, lastMouseX, lastMouseY,
                   keyVars, connVars>>

(***************************************************************************)
(* Keyboard callbacks and the repeat timer.                                *)
(***************************************************************************)
\* handleKeyDown(event) with event.code = code
KeyDown(code) ==
    IF code = "KeyC"
    THEN LET c == centerAndDraw(cameraX, cameraY, myPlayerId, players, canvas, worldImage)
         IN  /\ cameraX' = c[1]
             /\ cameraY' = c[2]
             /\ trace' = <<"keydown", "center", "draw">>
             /\ UNCHANGED <<canvas, imageVars, worldVars, mouseVars, keyVars, connVars>>
             /\ Draws
    ELSE IF code \in MovementCodes /\ ~Pressed(pressedKeys, code)
    THEN /\ pressedKeys' = Append(pressedKeys, code)
         /\ sockets' = sendMoveCommand(sockets, keyMap(code))
         /\ movementInterval' = startContinuousMovement(movementInterval, intervals)[1]
         /\ intervals' = startContinuousMovement(movementInterval, intervals)[2]
         /\ trace' = <<"keydown", "move">>
         /\ UNCHANGED frame
         /\ UNCHANGED <<canvas, imageVars, worldVars, cameraVars, mouseVars,
                        isMoving, reconnectTimers>>
    ELSE /\ trace' = IF code \in MovementCodes THEN <<"keydown", "held">>
                                              ELSE <<"keydown", "ignored">>
         /\ UNCHANGED frame
         /\ UNCHANGED <<canvas, imageVars, worldVars, cameraVars, mouseVars,
                        keyVars, connVars>>

\* handleKeyUp(event) with event.code = code, checkMovementState() included
KeyUp(code) ==
    IF code \in MovementCodes /\ Pressed(pressedKeys, code)
    THEN LET keys == Released(pressedKeys, code)
             hasMovementKeys == Len(keys) > 0
         IN  /\ pressedKeys' = keys
             /\ IF isMoving /\ ~hasMovementKeys
                THEN /\ isMoving' = FALSE
                     \* stopContinuousMovement()
                     /\ IF movementInterval # NULL
                        THEN /\ intervals' = intervals - 1
                             /\ movementInterval' = NULL
                        ELSE UNCHANGED <<movementInterval, intervals>>
                     /\ sockets' = sendStopCommand(sockets)
                     /\ trace' = <<"keyup", "stop">>
                ELSE /\ trace' = <<"keyup">>
                     /\ UNCHANGED <<isMoving, movementInterval, intervals, sockets>>
             /\ UNCHANGED <<canvas, imageVars, worldVars, cameraVars, mouseVars,
                            reconnectTimers, frame>>
    ELSE /\ trace' = <<"keyup", "ignored">>
         /\ UNCHANGED frame
         /\ UNCHANGED <<canvas, imageVars, worldVars, cameraVars, mouseVars,
                        keyVars, connVars>>

\* a variant of the timer's callback that sends without looking at the keys
TickAlwaysSends ==
    /\ intervals > 0
    /\ sockets' = sendMoveCommand(sockets, "up")
    /\ trace' = <<"tick", "move">>
    /\ UNCHANGED <<canvas, imageVars, worldVars, cameraVars, mouseVars, keyVars,
                   reconnectTimers, frame>>

\* the callback of setInterval in startContinuousMovement(), once per period
\* of every live interval timer
Tick ==
    /\ intervals > 0
    /\ IF Len(pressedKeys) > 0
       THEN /\ sockets' = sendMoveCommand(sockets, keyMap(firstPressed(pressedKeys)))
            /\ trace' = <<"tick", "move">>
       ELSE /\ trace' = <<"tick">>
            /\ UNCHANGED sockets
    /\ UNCHANGED <<canvas, imageVars, worldVars, cameraVars, mouseVars, keyVars,
                   reconnectTimers, frame>>

(***************************************************************************)
(* WebSocket callbacks and the reconnect timer.                            *)
(***************************************************************************)
\* websocket.onopen of socket i: the connection is established, joinGame()
WsOpen(i) ==
    /\ sockets[i].readyState = "CONNECTING"
    /\ sockets' = joinGame([sockets EXCEPT ![i].readyState = "OPEN"])
    /\ trace' = <<"onopen", "join">>
    /\ UNCHANGED <<canvas, imageVars, worldVars, cameraVars, mouseVars, keyVars,
                   reconnectTimers, frame>>

\* the closing handshake of socket i starts (no callback runs)
WsClosing(i) ==
    /\ sockets[i].readyState = "OPEN"
    /\ sockets' = [sockets EXCEPT ![i].readyState = "CLOSING"]
    /\ trace' = <<"closing">>
    /\ UNCHANGED <<canvas, imageVars, worldVars, cameraVars, mouseVars, keyVars,
                   reconnectTimers, frame>>

\* a variant of the close of socket i that also forgets the identity and the
\* players
WsCloseResets(i, failed) ==
    /\ sockets[i].readyState # "CLOSED"
    /\ sockets' = IF i = Len(sockets)
                  THEN [sockets EXCEPT ![i].readyState = "CLOSED"]
                  ELSE SubSeq(sockets, 1, i - 1) \o SubSeq(sockets, i + 1, Len(sockets))
    /\ reconnectTimers' = reconnectTimers + 1
    /\ myPlayerId' = NULL
    /\ players' = EmptyMap
    /\ trace' = IF failed THEN <<"onerror", "onclose">> ELSE <<"onclose">>
    /\ UNCHANGED <<canvas, imageVars, avatars, loadedAvatarImages, cameraVars,
                   mouseVars, keyVars, frame>>

\* socket i closes: its readyState becomes CLOSED, then websocket.onerror
\* runs if the connection failed, then websocket.onclose.  A closed socket
\* that this.websocket does not refer to is gone.
WsClose(i, failed) ==
    /\ sockets[i].readyState # "CLOSED"
    /\ sockets' = IF i = Len(sockets)
                  THEN [sockets EXCEPT ![i].readyState = "CLOSED"]
                  ELSE SubSeq(sockets, 1, i - 1) \o SubSeq(sockets, i + 1, Len(sockets))
    /\ reconnectTimers' = onclose(IF failed THEN onerror(reconnectTimers)
                                            ELSE reconnectTimers)
    /\ trace' = IF failed THEN <<"onerror", "onclose">> ELSE <<"onclose">>
    /\ UNCHANGED <<canvas, imageVars, worldVars, cameraVars, mouseVars, keyVars, frame>>

\* the callback of setTimeout in websocket.onclose: connectToServer()
Reconnect ==
    /\ reconnectTimers > 0
    /\ reconnectTimers' = reconnectTimers - 1
    /\ sockets' = connectToServer(sockets)
    /\ trace' = <<"reconnect", "connect">>
    /\ UNCHANGED <<canvas, imageVars, worldVars, cameraVars, mouseVars, keyVars, frame>>

\* history: the label of a merge of the players with these ids
MergeLabel(ids) ==
    CASE ids = {"p1"} -> "merge p1"
      [] ids = {"p2"} -> "merge p2"
      [] OTHER -> "merge p1 p2"

\* handleServerMessage(message); socks are the sockets as the message arrives
handleServerMessage(message, socks) ==
    CASE message.action = "join_game" /\ message.success ->
            LET loaded == loadAvatarImages(loadedAvatarImages, message.avatars)
                c == centerAndDraw(cameraX, cameraY, message.playerId,
                                   message.players, canvas, worldImage)
            IN  /\ myPlayerId' = message.playerId
                /\ players' = message.players
                /\ avatars' = message.avatars
                /\ loadedAvatarImages' = loaded
                /\ cameraX' = c[1]
                /\ cameraY' = c[2]
                /\ trace' = <<"join_game", "load", "center", "draw">>
                /\ sockets' = socks
                /\ Draws
      [] message.action = "join_game" /\ ~message.success ->
            /\ sockets' = joinFailed(socks)
            /\ trace' = <<"join_game", "failed">>
            /\ UNCHANGED <<worldVars, cameraVars, frame>>
      [] message.action = "player_joined" ->
            LET pls == playerJoined(players, message)
                avs == avatarJoined(avatars, message)
                loaded == loadAvatarImages(loadedAvatarImages, avs)
                c == drawWorld(cameraX, cameraY, canvas, worldImage)
            IN  /\ players' = pls
                /\ avatars' = avs
                /\ loadedAvatarImages' = loaded
                /\ cameraX' = c[1]
                /\ cameraY' = c[2]
                /\ trace' = <<"player_joined", "load", "draw">>
                /\ sockets' = socks
                /\ UNCHANGED myPlayerId
                /\ Draws
      [] message.action = "players_moved" ->
            LET pls == playersMoved(players, message)
                c == centerAndDraw(cameraX, cameraY, myPlayerId, pls, canvas, worldImage)
            IN  /\ players' = pls
                /\ cameraX' = c[1]
                /\ cameraY' = c[2]
                /\ trace' = <<"players_moved", MergeLabel(DOMAIN message.players),
                              "center", "draw">>
                /\ sockets' = socks
                /\ UNCHANGED <<myPlayerId, avatars, loadedAvatarImages>>
                /\ Draws
      [] message.action = "player_left" ->
            LET pls == playerLeft(players, message)
                c == drawWorld(cameraX, cameraY, canvas, worldImage)
            IN  /\ players' = pls
                /\ cameraX' = c[1]
                /\ cameraY' = c[2]
                /\ trace' = <<"player_left", "draw">>
                /\ sockets' = socks
                /\ UNCHANGED <<myPlayerId, avatars, loadedAvatarImages>>
                /\ Draws
      [] OTHER ->
            /\ trace' = <<"unknown">>
            /\ sockets' = socks
            /\ UNCHANGED <<worldVars, cameraVars, frame>>

\* whether data carries a join result
IsJoinResult(data) == Parses(data) /\ JSONparse(data).action = "join_game"

\* websocket.onmessage of socket i with event.data = data.  The server
\* answers a join request with one join result, on the socket of the request.
WsMessage(i, data) ==
    /\ sockets[i].readyState = "OPEN"
    /\ IsJoinResult(data) => sockets[i].acks < Len(Joins(sockets[i].sent))
    /\ IF Parses(data)
       THEN handleServerMessage(JSONparse(data),
                IF IsJoinResult(data) THEN [sockets EXCEPT ![i].acks = @ + 1]
                                      ELSE sockets)
       ELSE /\ sockets' = onParseError(sockets)
            /\ trace' = <<"onmessage", "parse-error">>
            /\ UNCHANGED <<worldVars, cameraVars, frame>>
    /\ UNCHANGED <<canvas, imageVars, mouseVars, keyVars, reconnectTimers>>

\* the images that loadAvatarImages() created
AvatarImages ==
    UNION { { loadedAvatarImages[n][d][k] : k \in DOMAIN loadedAvatarImages[n][d] } :
            n \in DOMAIN loadedAvatarImages, d \in {"north", "south", "east"} }

\* the avatar frame image img finishes loading: it has no onload callback
ImageLoad(img) ==
    /\ img \in AvatarImages \ imagesComplete
    /\ imagesComplete' = imagesComplete \cup {img}
    /\ trace' = <<"imageload">>
    /\ UNCHANGED <<canvas, worldImage, worldVars, cameraVars, mouseVars, keyVars,
                   connVars, frame>>

(***************************************************************************)
(* Specifications.  An action that would exceed a bound of the model is    *)
(* not taken.                                                              *)
(***************************************************************************)
WithinBounds == Bounded(sockets, reconnectTimers, intervals)

Open == \E i \in DOMAIN sockets : WsOpen(i) /\ WithinBounds'
Closing == \E i \in DOMAIN sockets : WsClosing(i)
Close == \E i \in DOMAIN sockets, failed \in BOOLEAN : WsClose(i, failed) /\ WithinBounds'
ReconnectTimer == Reconnect /\ WithinBounds'
Message == \E i \in DOMAIN sockets, data \in Payloads : WsMessage(i, data) /\ WithinBounds'
KeyPress == \E code \in KeyCodes : KeyDown(code) /\ WithinBounds'
KeyRelease == \E code \in KeyCodes : KeyUp(code) /\ WithinBounds'
RepeatTimer == Tick /\ WithinBounds'
Recenter == KeyDown("KeyC")
PressUp == KeyDown("ArrowUp") /\ WithinBounds'
WindowResize == \E size \in CanvasSizes : Resize(size)
DragStart == \E pt \in MousePoints : MouseDown(pt)
DragMove == \E pt \in MousePoints : MouseMove(pt)
DragEnd == MouseUp
AvatarLoaded == \E img \in AvatarImages : ImageLoad(img)

\* the whole client
Next ==
    \/ Open \/ Closing \/ Close \/ ReconnectTimer \/ Message
    \/ KeyPress \/ KeyRelease \/ RepeatTimer
    \/ WindowResize \/ DragStart \/ DragMove \/ DragEnd
    \/ AvatarLoaded
Spec == Init /\ [][Next]_vars

\* the command loop over the connection: keyboard, repeat timer, sockets
NextInput ==
    \/ Open \/ Closing \/ Close \/ ReconnectTimer
    \/ KeyPress \/ KeyRelease \/ RepeatTimer
SpecInput == Init /\ [][NextInput]_vars

\* the world store under the inbound messages, over the connection
NextWorld ==
    \/ Open \/ Closing \/ Close \/ ReconnectTimer \/ Message \/ Recenter
SpecWorld == Init /\ [][NextWorld]_vars

\* the camera under everything that moves it: the messages of an open
\* session, the recenter key, the drag and the window's resize
NextCamera ==
    \/ Open \/ Message \/ Recenter
    \/ WindowResize \/ DragStart \/ DragMove \/ DragEnd
SpecCamera == Init /\ [][NextCamera]_vars

\* the canvas under the inbound messages and the avatar image loads
NextRender ==
    \/ Open \/ Message \/ AvatarLoaded \/ Recenter
SpecRender == Init /\ [][NextRender]_vars

\* the store, the camera and a held key over closes and reconnections
NextSession ==
    \/ Open \/ Closing \/ Close \/ ReconnectTimer \/ Message
    \/ PressUp
SpecSession == Init /\ [][NextSession]_vars

\* the command loop with the reconnect timer's callback guaranteed to run:
\* a callback scheduled with setTimeout runs once its delay has passed
SpecInputFair == SpecInput /\ WF_vars(ReconnectTimer)

(***************************************************************************)
(* Claims.                                                                 *)
(***************************************************************************)
\* the sockets without the server's bookkeeping: what the client can see
Wire(socks) ==
    [i \in DOMAIN socks |-> [readyState |-> socks[i].readyState, sent |-> socks[i].sent]]
\* the sockets that are not closed
Live(socks) == { i \in DOMAIN socks : socks[i].readyState # "CLOSED" }

\* C1: with the session open, a step that removes the last held movement key
\* (the Pressed-Key Set becomes empty) sends exactly one stop command.
C1_StopOnLastKeyUp ==
    [][ (IsOpen(sockets) /\ pressedKeys # <<>> /\ pressedKeys' = <<>>)
            => sockets' = wsSend(sockets, StopMessage) ]_vars

\* C2: whenever the Pressed-Key Set is empty, no movement-repeat timer is active.
C2_NoTimerWhileIdle ==
    pressedKeys = <<>> => (movementInterval = NULL /\ intervals = 0)

\* a step in which socket i receives the players_moved message m
MovedStep(i, m) == WsMessage(i, Payload(m)) /\ WithinBounds'

\* C3 (as claimed): for every player id in a players_moved update, each field
\* of the stored player that the update entry does not carry keeps its value.
C3_FieldsPreserved ==
    [][ \A i \in DOMAIN sockets, m \in PlayersMoved :
            MovedStep(i, m) =>
                \A id \in DOMAIN m.players \cap DOMAIN players :
                    \A f \in DOMAIN players[id] \ DOMAIN m.players[id] :
                        /\ f \in DOMAIN players'[id]
                        /\ players'[id][f] = players[id][f] ]_vars

\* C3 (amended): a players_moved message merges by player id: for every id
\* in the update the stored player becomes the update entry itself, so a field
\* the entry does not carry is absent afterwards.
C3_EntriesReplaced ==
    [][ \A i \in DOMAIN sockets, m \in PlayersMoved :
            MovedStep(i, m) =>
                \A id \in DOMAIN m.players :
                    /\ id \in DOMAIN players'
                    /\ players'[id] = m.players[id] ]_vars

\* C3 witness: a players_moved message has replaced the stored player of the
\* local identity by an entry that carries a position only.
C3_Witness ==
    /\ trace[1] = "players_moved"
    /\ myPlayerId \in DOMAIN players
    /\ players[myPlayerId] = PositionOnly(<<0, 0>>)

\* C4: a players_moved message leaves every stored player whose id is not in
\* the update in the mapping, with every field unchanged.
C4_OthersUntouched ==
    [][ \A i \in DOMAIN sockets, m \in PlayersMoved :
            MovedStep(i, m) =>
                \A id \in DOMAIN players \ DOMAIN m.players :
                    /\ id \in DOMAIN players'
                    /\ players'[id] = players[id] ]_vars

\* C4 witness: a players_moved message for p1 alone has been merged, and p2,
\* which it did not name, is stored in full.
C4_Witness ==
    /\ trace[1] = "players_moved"
    /\ trace[2] = "merge p1"
    /\ "p1" \in DOMAIN players
    /\ players["p1"] = PositionOnly(<<0, 0>>)
    /\ "p2" \in DOMAIN players
    /\ players["p2"] = FullPlayer("p2", <<1000, 1000>>)

\* C5: the camera is always within the world: 0 <= cameraX <=
\* max(0, worldWidth - viewport width), and the same for cameraY, after every
\* centering, drag step and resize, also when the viewport exceeds the world.
C5_CameraInBounds ==
    /\ 0 <= cameraX /\ cameraX <= Max(0, worldWidth - canvas.width)
    /\ 0 <= cameraY /\ cameraY <= Max(0, worldHeight - canvas.height)

\* C5 witness: a drag step has pushed the camera to the far edge of the world.
C5_Witness ==
    /\ trace = <<"mousemove", "draw">>
    /\ cameraX = worldWidth - canvas.width
    /\ cameraX > 0

\* C6: after every close of a session a new connection attempt is eventually
\* started by the reconnect timer.
C6_ReconnectAfterClose ==
    (trace[Len(trace)] = "onclose")
        ~> (trace = <<"reconnect", "connect">> /\ Last(sockets).readyState = "CONNECTING")

\* C6 witness: the reconnect timer has fired after a close and started a new
\* connection attempt, here with a movement key held.
C6_Witness ==
    /\ trace = <<"reconnect", "connect">>
    /\ sockets = <<NewSocket>>
    /\ pressedKeys # <<>>

\* C7: at most one socket is connecting, open or closing, at most one
\* reconnect is pending, and never both.
C7_OneLiveConnection ==
    /\ Cardinality(Live(sockets)) <= 1
    /\ reconnectTimers <= 1
    /\ Cardinality(Live(sockets)) + reconnectTimers <= 1

\* C7 witness: a failed connection has closed, and its one reconnect is pending.
C7_Witness ==
    /\ trace = <<"onerror", "onclose">>
    /\ Live(sockets) = {}
    /\ reconnectTimers = 1

\* C8: a step taken while the current session is not open adds no move or
\* stop command to what any socket has transmitted; that covers the step in
\* which the session opens, so a skipped command is not sent later.
C8_NoSendWhileNotOpen ==
    [][ ~IsOpen(sockets) =>
            \A i \in DOMAIN sockets' :
                \/ Commands(sockets'[i].sent) = <<>>
                \/ /\ i \in DOMAIN sockets
                   /\ Commands(sockets'[i].sent) = Commands(sockets[i].sent) ]_vars

\* C8 witness: a session has opened while a movement key was held and the
\* repeat timer was running, and the join request is all it has transmitted.
C8_Witness ==
    /\ trace = <<"onopen", "join">>
    /\ pressedKeys # <<>>
    /\ intervals > 0
    /\ Last(sockets).sent = <<JoinMessage>>

\* C9: a payload that fails to parse changes neither the player mapping, the
\* avatar mapping, the local identity nor the camera, closes no session, and
\* leaves the session open for the messages that follow.
C9_BadPayloadDropped ==
    [][ trace' = <<"onmessage", "parse-error">> =>
            /\ UNCHANGED <<myPlayerId, players, avatars, loadedAvatarImages>>
            /\ UNCHANGED <<cameraX, cameraY>>
            /\ UNCHANGED <<sockets, reconnectTimers>>
            /\ \E i \in DOMAIN sockets' : sockets'[i].readyState = "OPEN" ]_vars

\* C9 witness: an unparseable payload arrived on a joined session with
\* players in the store.
C9_Witness ==
    /\ trace = <<"onmessage", "parse-error">>
    /\ myPlayerId \in DOMAIN players
    /\ IsOpen(sockets)

\* C10 (as claimed): after a join result that indicates failure the client
\* holds no local-player identity, the mappings are unchanged and no join
\* request is sent.
C10_NoIdentityAfterFailure ==
    [][ trace' = <<"join_game", "failed">> =>
            /\ myPlayerId' = NULL
            /\ UNCHANGED <<players, avatars>>
            /\ Wire(sockets') = Wire(sockets) ]_vars

\* C10 (amended): a join result that indicates failure changes nothing: the
\* identity and the mappings keep the values they had (those of an earlier
\* session, on a reconnection), the session stays open, and no session ever
\* transmits a second join request.
C10_FailureChangesNothing ==
    /\ [][ trace' = <<"join_game", "failed">> =>
              /\ UNCHANGED <<myPlayerId, players, avatars>>
              /\ Wire(sockets') = Wire(sockets)
              /\ IsOpen(sockets') ]_vars
    /\ [](\A i \in DOMAIN sockets : Len(Joins(sockets[i].sent)) <= 1)

\* C10 witness: the join failed on a reconnection, after an earlier session
\* had joined.
C10_Witness ==
    /\ trace = <<"join_game", "failed">>
    /\ myPlayerId # NULL
    /\ players # EmptyMap

\* v brought into the interval from lo to hi
Into(v, lo, hi) == IF v < lo THEN lo ELSE IF v > hi THEN hi ELSE v

\* whether the callback that ran last handled a successful join snapshot or
\* a players_moved message
AfterSnapshotOrMove ==
    trace = <<"join_game", "load", "center", "draw">> \/ trace[1] = "players_moved"

\* C11: after a successful join snapshot or a players_moved message, with the
\* local player in the mapping, the camera on each axis is the player's
\* position less half the viewport, brought into [0, world - viewport] (into
\* [0, 0] when the viewport exceeds the world); with viewport 800x600 a player
\* at (1000,1000) gives (600,700) and a player at (0,0) gives (0,0).
C11_CameraCentered ==
    (AfterSnapshotOrMove /\ myPlayerId \in DOMAIN players) =>
        LET me == players[myPlayerId]
        IN  /\ cameraX = Into(me.x - canvas.width \div 2, 0,
                              Max(0, worldWidth - canvas.width))
            /\ cameraY = Into(me.y - canvas.height \div 2, 0,
                              Max(0, worldHeight - canvas.height))
            /\ (canvas = [width |-> 800, height |-> 600] /\ me.x = 1000 /\ me.y = 1000)
                  => (cameraX = 600 /\ cameraY = 700)
            /\ (canvas = [width |-> 800, height |-> 600] /\ me.x = 0 /\ me.y = 0)
                  => (cameraX = 0 /\ cameraY = 0)

\* C11 witness: a players_moved message has put the local player at (0,0) in
\* an 800x600 viewport, and the camera is at (0,0).
C11_Witness ==
    /\ trace[1] = "players_moved"
    /\ canvas = [width |-> 800, height |-> 600]
    /\ myPlayerId \in DOMAIN players
    /\ players[myPlayerId].x = 0
    /\ players[myPlayerId].y = 0
    /\ cameraX = 0
    /\ cameraY = 0

\* the player has a sprite definition in the store
HasSprite(p) == "avatar" \in DOMAIN p /\ p.avatar \in DOMAIN avatars

\* the canvas shows the stored player p at its place under the camera
Shown(p) ==
    \E s \in frame.sprites :
        /\ s.username = p.username
        /\ s.x = p.x - cameraX - avatarSize \div 2
        /\ s.y = p.y - cameraY - avatarSize \div 2

\* the canvas shows the camera and the store as they are: every stored
\* player that has a sprite, and nobody else
CanvasShowsStore ==
    /\ frame.cameraX = cameraX
    /\ frame.cameraY = cameraY
    /\ \A id \in DOMAIN players : HasSprite(players[id]) => Shown(players[id])
    /\ \A s \in frame.sprites :
           \E id \in DOMAIN players :
               /\ HasSprite(players[id])
               /\ s.username = players[id].username
               /\ s.x = players[id].x - cameraX - avatarSize \div 2
               /\ s.y = players[id].y - cameraY - avatarSize \div 2

\* C12: a message that changes the player mapping or the avatar mapping
\* ends with a render pass, so that the canvas shows the changed store
\* before the next event; after a join snapshot and after players moved
\* the canvas is painted at the camera recentred on the own avatar's merged
\* position.
C12_RenderAfterStoreChange ==
    [][ (players' # players \/ avatars' # avatars) =>
            /\ CanvasShowsStore'
            /\ (AfterSnapshotOrMove' /\ myPlayerId' \in DOMAIN players') =>
                   /\ frame'.cameraX = Into(players'[myPlayerId'].x - canvas'.width \div 2,
                                            0, Max(0, worldWidth - canvas'.width))
                   /\ frame'.cameraY = Into(players'[myPlayerId'].y - canvas'.height \div 2,
                                            0, Max(0, worldHeight - canvas'.height)) ]_vars

\* players moved has put the own avatar at the far corner of the world and
\* the canvas shows it there, under the recentred camera
C12_Witness ==
    /\ trace[1] = "players_moved"
    /\ canvas = [width |-> 800, height |-> 600]
    /\ myPlayerId = "p1"
    /\ "p1" \in DOMAIN players
    /\ players["p1"].x = 2000
    /\ frame.cameraX = 1248
    /\ \E s \in frame.sprites : s.username = Username("p1") /\ s.x = 736

\* the image renderAvatar() paints for the stored player p
SpriteImage(p) == loadedAvatarImages[p.avatar][p.facing][p.animationFrame + 1]

\* the canvas shows, for every stored player whose frame image has finished
\* loading, that image
CanvasShowsLoadedImages ==
    \A id \in DOMAIN players :
        (HasSprite(players[id]) /\ SpriteImage(players[id]) \in imagesComplete) =>
            \E s \in frame.sprites :
                s.username = players[id].username /\ s.image = SpriteImage(players[id])

\* C14: when an avatar frame image finishes loading, a render pass is
\* triggered by the completion, so that the canvas shows the image without
\* any further network or input event.
C14_RenderOnImageLoad ==
    [][ imagesComplete' # imagesComplete => CanvasShowsLoadedImages' ]_vars

\* the movement keys held
Held(keys) == { keys[k] : k \in DOMAIN keys }

\* the step transmits message on the current socket
Transmits(message) ==
    /\ sockets # <<>>
    /\ Len(sockets') = Len(sockets)
    /\ Last(sockets').sent = Append(Last(sockets).sent, message)

\* C13: a key-up that leaves at least one movement key held removes that key
\* from the Pressed-Key Set and sends no command, and no step that leaves a
\* movement key held sends a stop command.
C13_KeyUpWithOthersHeld ==
    [][ /\ \A code \in MovementCodes :
               (KeyUp(code) /\ code \in Held(pressedKeys) /\ Len(pressedKeys) >= 2) =>
                   /\ Held(pressedKeys') = Held(pressedKeys) \ {code}
                   /\ Len(pressedKeys') = Len(pressedKeys) - 1
                   /\ sockets' = sockets
        /\ pressedKeys' # <<>> => ~Transmits(StopMessage) ]_vars

\* one of two held keys has just been released on an open session
C13_Witness ==
    /\ trace = <<"keyup">>
    /\ Len(pressedKeys) = 1
    /\ IsOpen(sockets)
    /\ Len(Commands(Last(sockets).sent)) >= 2

\* a key-down of the movement key code while another movement key is held
AdditionalKeyDown(code) ==
    /\ KeyDown(code)
    /\ pressedKeys # <<>>
    /\ code \notin Held(pressedKeys)

\* C15 (as claimed): a key-down for an additional movement key adds the key
\* to the Pressed-Key Set, starts no timer and sends no move command.
C15_AdditionalKeySendsNothing ==
    [][ \A code \in MovementCodes :
            AdditionalKeyDown(code) =>
                /\ pressedKeys' = Append(pressedKeys, code)
                /\ UNCHANGED <<movementInterval, intervals>>
                /\ sockets' = sockets ]_vars

\* C15 (amended): a key-down for an additional movement key adds the key to
\* the Pressed-Key Set after the keys already held, starts no timer, and on an
\* open session transmits exactly one move command, which carries the new
\* key's direction; on a session that is not open it sends nothing.
C15_AdditionalKeySendsOnce ==
    [][ \A code \in MovementCodes :
            AdditionalKeyDown(code) =>
                /\ pressedKeys' = Append(pressedKeys, code)
                /\ UNCHANGED <<movementInterval, intervals>>
                /\ intervals = 1
                /\ IF IsOpen(sockets)
                   THEN Transmits(MoveMessage(keyMap(code)))
                   ELSE sockets' = sockets ]_vars

\* a second key with another direction has been pressed on an open session:
\* its move command is on the wire and one timer runs
C15_Witness ==
    /\ trace = <<"keydown", "move">>
    /\ Len(pressedKeys) = 2
    /\ keyMap(pressedKeys[1]) # keyMap(pressedKeys[2])
    /\ IsOpen(sockets)
    /\ Last(Last(sockets).sent) = MoveMessage(keyMap(pressedKeys[2]))
    /\ intervals = 1

\* keys without its k-th element
Without(keys, k) == SubSeq(keys, 1, k - 1) \o SubSeq(keys, k + 1, Len(keys))

\* C16: a repeat-timer tick with a movement key held and the session open
\* transmits exactly one move command, with the direction of the held key
\* that was pressed earliest; the Pressed-Key Set keeps the order of the
\* key-downs: a key-down puts its key after the keys held, a key-up takes its
\* key out and leaves the order of the others.
C16_TickSendsFirstHeld ==
    [][ /\ (Tick /\ pressedKeys # <<>> /\ IsOpen(sockets)) =>
               sockets' = [sockets EXCEPT ![Len(sockets)].sent =
                               Append(@, MoveMessage(keyMap(pressedKeys[1])))]
        /\ pressedKeys' # pressedKeys =>
               \/ \E code \in MovementCodes \ Held(pressedKeys) :
                      pressedKeys' = Append(pressedKeys, code)
               \/ \E k \in DOMAIN pressedKeys : pressedKeys' = Without(pressedKeys, k) ]_vars

\* a tick has sent the direction of the first of two held keys with
\* different directions
C16_Witness ==
    /\ trace = <<"tick", "move">>
    /\ pressedKeys = <<"ArrowRight", "ArrowUp">>
    /\ IsOpen(sockets)
    /\ Last(Last(sockets).sent) = MoveMessage("right")

\* C17: a key-down for a movement key that is already held changes neither
\* the Pressed-Key Set nor its order, sends nothing and starts no timer.
C17_DuplicateKeyDownNoOp ==
    [][ \A code \in MovementCodes :
            (KeyDown(code) /\ code \in Held(pressedKeys)) =>
                UNCHANGED <<pressedKeys, sockets, movementInterval, intervals, isMoving>> ]_vars

\* a key-down of a held key has been ignored on an open session
C17_Witness ==
    /\ trace = <<"keydown", "held">>
    /\ pressedKeys # <<>>
    /\ IsOpen(sockets)

\* the directions of the movement keys
Directions == { keyMap(code) : code \in MovementCodes }

\* C18: no move command is sent while the Pressed-Key Set is empty: a step
\* that transmits a move command leaves a movement key held, and a tick that
\* finds no key held sends nothing.
C18_NoMoveWhileNoKeyHeld ==
    [][ /\ (\E d \in Directions : Transmits(MoveMessage(d))) => pressedKeys' # <<>>
        /\ (Tick /\ pressedKeys = <<>>) => sockets' = sockets ]_vars

\* after the last key was released on an open session the timer has ticked,
\* and the last message on the wire is still the move of the key-down
C18_Witness ==
    /\ trace = <<"tick">>
    /\ pressedKeys = <<>>
    /\ intervals > 0
    /\ IsOpen(sockets)
    /\ Len(Commands(Last(sockets).sent)) = 1

\* C19: on every socket the join request is the first message transmitted
\* and the only join request: a socket that is still connecting has sent
\* nothing, a socket that is open has sent its join request, and no move or
\* stop command precedes it.
C19_JoinFirstAndOnce ==
    \A i \in DOMAIN sockets :
        LET s == sockets[i]
        IN  /\ s.readyState = "CONNECTING" => s.sent = <<>>
            /\ s.readyState = "OPEN" => s.sent # <<>>
            /\ s.sent # <<>> =>
                   /\ s.sent[1] = JoinMessage
                   /\ Len(Joins(s.sent)) = 1

\* the session opened while a key was held and the repeat timer ran (the
\* key-down itself sent nothing): the join request went first, the move
\* command of a tick after it
C19_Witness ==
    /\ trace = <<"tick", "move">>
    /\ reconnectTimers = 0
    /\ pressedKeys # <<>>
    /\ IsOpen(sockets)
    /\ Len(Last(sockets).sent) = 2
    /\ Last(sockets).sent[1] = JoinMessage
    /\ Last(sockets).sent[2].action = "move"

\* the readyState of each socket
ReadyStates(socks) == [i \in DOMAIN socks |-> socks[i].readyState]

\* C20: a step of the connection (a socket opens, starts closing or closes,
\* or the reconnect timer makes a new socket) changes neither the players,
\* the avatars, the local identity, the camera, the Pressed-Key Set nor the
\* repeat timer; a successful join acknowledgment replaces the identity and
\* the two mappings by those of the message.
C20_CloseKeepsState ==
    [][ /\ ReadyStates(sockets') # ReadyStates(sockets) =>
               UNCHANGED <<myPlayerId, players, avatars, cameraX, cameraY,
                           pressedKeys, movementInterval, intervals>>
        /\ trace' = <<"join_game", "load", "center", "draw">> =>
               \A i \in DOMAIN sockets, m \in JoinSuccess :
                   WsMessage(i, Payload(m)) =>
                       /\ myPlayerId' = m.playerId
                       /\ players' = m.players
                       /\ avatars' = m.avatars ]_vars

\* a later session has opened and sent its join request, and the identity,
\* the players, the camera, the held key and the timer of the session before
\* it are still there
C20_Witness ==
    /\ trace = <<"onopen", "join">>
    /\ myPlayerId \in DOMAIN players
    /\ cameraX # 0
    /\ pressedKeys = <<"ArrowUp">>
    /\ intervals = 1

====
